---- MODULE Spec2Model ----
(***************************************************************************)
(* Sliding-tile puzzle benchmark: the 8-puzzle (src/8puzzle.py, 3x3) and    *)
(* the 15-puzzle (src/15puzzle.py, 4x4).  Both files define the same        *)
(* names; operators that differ only in the grid width take it as the       *)
(* parameter `size` (3 for 8puzzle.py, 4 for 15puzzle.py), and operators    *)
(* that differ in their code carry the suffix _8 or _15.                    *)
(*                                                                          *)
(* A grid state is a tuple of rows, as in the source.  Rows and columns     *)
(* are numbered from 0 as in the source; Cell(state, r, c) reads one cell.  *)
(* Python's None is the empty tuple.  A Puzzle node is a record of its      *)
(* five fields; its `parent` field, a reference, is represented by the      *)
(* state of the node it refers to.                                          *)
(***************************************************************************)
EXTENDS Integers, Sequences, FiniteSets, TLC

VARIABLES
    size,            \* grid width of the running program: 3 or 4
    order,           \* order in which this interpreter iterates the set MOVES
    heuristic,       \* a_star_search: name of the heuristic argument
    start_state,     \* a_star_search: the start_state argument (a Puzzle)
    open_set,        \* a_star_search: the heap, a list of (f, Puzzle) pairs
    visited,         \* a_star_search: set of states (3x3) / dict state -> g (4x4)
    steps,           \* a_star_search: local counter
    nodes_expanded,  \* a_star_search: local counter
    current,         \* the node last popped (search) / the walker (sampler)
    children,        \* value returned by the last possible_moves call
    result,          \* value returned by the running function, or Pending
    pops,            \* history: number of heappop calls made by the search
    created,         \* history: number of nodes built by possible_moves calls
    pushed,          \* history: (state, g, key) of every heappush, in order
    popped,          \* history: the key of every heappop, in order
    n,               \* create_reachable_states: argument n
    moves,           \* create_reachable_states (4x4): argument moves
    states,          \* create_reachable_states: the local set `states`
    grid,            \* the local `state` of the sampler: the grid given to is_solvable
    i,               \* create_reachable_states (4x4): moves made by the walker
    pc               \* position of the running function

vars == <<size, order, heuristic, start_state, open_set, visited, steps,
          nodes_expanded, current, children, result, pops, created,
          pushed, popped,
          n, moves, states, grid, i, pc>>

searchVars == <<heuristic, start_state, open_set, visited, steps,
                nodes_expanded, pops, created, pushed, popped>>
samplerVars == <<n, moves, states, grid, i>>

None == <<>>
Pending == <<"pending">>

\* ------------------------------------------------------------------ bounds
\* Start states of a search lie at most MaxScramble blank moves from the goal.
MaxScramble == 3
\* Length of the walks of the move generator.
MaxWalk == 4
\* Length of the walks on which the heuristics are evaluated.
MaxDeepWalk == 13
\* Largest sample count and walk length given to create_reachable_states.
MaxN == 2
MaxMoves == 2
\* Outcomes of random.shuffle lie at most MaxShuffle blank moves from the goal
\* or from the goal with two tiles exchanged.
MaxShuffle == 1

\* --------------------------------------------------------------- constants
GOAL_STATE_8 == <<<<1, 2, 3>>, <<4, 5, 6>>, <<7, 8, 0>>>>

GOAL_STATE_15 ==
    <<<<1, 2, 3, 4>>, <<5, 6, 7, 8>>, <<9, 10, 11, 12>>, <<13, 14, 15, 0>>>>

GOAL_STATE(sz) == IF sz = 3 THEN GOAL_STATE_8 ELSE GOAL_STATE_15

MOVES == {<<0, -1>>, <<0, 1>>, <<-1, 0>>, <<1, 0>>}

\* Every order in which iterating the set MOVES can yield its four elements.
MoveOrders ==
    {o \in [1..4 -> MOVES] : \A a, b \in 1..4 : a # b => o[a] # o[b]}

Sizes == {3, 4}

\* ------------------------------------------------------------------ Puzzle
Cell(state, r, c) == state[r + 1][c + 1]

abs(x) == IF x < 0 THEN -x ELSE x

\* Positions (r, c) of a grid in row-major order: position k (from 0) of the
\* nested enumerate loops.
RowOf(state, k) == k \div Len(state[1])
ColOf(state, k) == k % Len(state[1])
NumCells(state) == Len(state) * Len(state[1])

RECURSIVE LastZeroFrom(_, _)
\* A variant of find_blank: the loops do not return at the first zero.
LastZeroFrom(state, k) ==
    IF k < 0 THEN None
    ELSE IF Cell(state, RowOf(state, k), ColOf(state, k)) = 0
         THEN <<RowOf(state, k), ColOf(state, k)>>
         ELSE LastZeroFrom(state, k - 1)

find_blank_Last(state) == LastZeroFrom(state, NumCells(state) - 1)

RECURSIVE FirstZeroFrom(_, _)
FirstZeroFrom(state, k) ==
    IF k >= NumCells(state) THEN None
    ELSE IF Cell(state, RowOf(state, k), ColOf(state, k)) = 0
         THEN <<RowOf(state, k), ColOf(state, k)>>
         ELSE FirstZeroFrom(state, k + 1)

find_blank(state) == FirstZeroFrom(state, 0)

Puzzle(state, parent, move, cost) ==
    [state |-> state, parent |-> parent, move |-> move, cost |-> cost,
     blank_pos |-> find_blank(state)]

\* A variant of SwapCells: the blank is written to the target cell and the
\* target's tile is not written back.
SwapCells_NoWriteBack(state, r, c, new_r, new_c) ==
    [state EXCEPT ![new_r + 1][new_c + 1] = Cell(state, r, c)]

\* new_state after `new_state[r][c], new_state[new_r][new_c] =
\* new_state[new_r][new_c], new_state[r][c]` on a copy of state
SwapCells(state, r, c, new_r, new_c) ==
    [state EXCEPT ![r + 1][c + 1] = Cell(state, new_r, new_c),
                  ![new_r + 1][new_c + 1] = Cell(state, r, c)]

WithinBounds(self, m, sz) ==
    /\ 0 <= self.blank_pos[1] + m[1] /\ self.blank_pos[1] + m[1] < sz
    /\ 0 <= self.blank_pos[2] + m[2] /\ self.blank_pos[2] + m[2] < sz

\* A variant of ChildOf: the child is given the cost of its parent.
ChildOf_SameCost(self, m) ==
    Puzzle(SwapCells(self.state, self.blank_pos[1], self.blank_pos[2],
                     self.blank_pos[1] + m[1], self.blank_pos[2] + m[2]),
           self.state, m, self.cost)

\* The Puzzle appended to `children` for the move m = (dr, dc).
ChildOf(self, m) ==
    Puzzle(SwapCells(self.state, self.blank_pos[1], self.blank_pos[2],
                     self.blank_pos[1] + m[1], self.blank_pos[2] + m[2]),
           self.state, m, self.cost + 1)

RECURSIVE ChildrenFrom(_, _, _, _)
ChildrenFrom(self, ord, sz, k) ==
    IF k > Len(ord) THEN <<>>
    ELSE IF WithinBounds(self, ord[k], sz)
         THEN <<ChildOf(self, ord[k])>> \o ChildrenFrom(self, ord, sz, k + 1)
         ELSE ChildrenFrom(self, ord, sz, k + 1)

\* A variant of possible_moves: the last move of the iteration is left out.
possible_moves_ThreeMoves(self, ord, sz) ==
    ChildrenFrom(self, SubSeq(ord, 1, 3), sz, 1)

\* A variant of possible_moves: a move that leaves the grid is not skipped,
\* it yields a child with the parent's state.
possible_moves_Clamped(self, ord, sz) ==
    [k \in 1..Len(ord) |->
        IF WithinBounds(self, ord[k], sz) THEN ChildOf(self, ord[k])
        ELSE Puzzle(self.state, self.state, ord[k], self.cost + 1)]

\* self.possible_moves(), with MOVES iterated in the order `ord`.  The call
\* requires self.blank_pos to be a pair (unpacking None raises TypeError).
possible_moves(self, ord, sz) == ChildrenFrom(self, ord, sz, 1)

\* A variant of SelfAfterMove: the rows are not copied, the swap is made in
\* self.state.
SelfAfterMove_InPlace(self, m) ==
    [self EXCEPT !.state =
        SwapCells(self.state, self.blank_pos[1], self.blank_pos[2],
                  self.blank_pos[1] + m[1], self.blank_pos[2] + m[2])]

\* The fields of `self` after one round of the for loop that passes the
\* bounds test: `new_state = [list(row) for row in self.state]` copies the
\* rows and the swap is made in the copy, so no field of self is assigned.
SelfAfterMove(self, m) == self

RECURSIVE SelfAfterFrom(_, _, _, _)
SelfAfterFrom(self, ord, sz, k) ==
    IF k > Len(ord) THEN self
    ELSE SelfAfterFrom(IF WithinBounds(self, ord[k], sz)
                       THEN SelfAfterMove(self, ord[k]) ELSE self,
                       ord, sz, k + 1)

\* The fields of `self` when self.possible_moves() returns.
SelfAfterMoves(self, ord, sz) == SelfAfterFrom(self, ord, sz, 1)

Range(s) == {s[k] : k \in 1..Len(s)}

\* -------------------------------------------------------------- heuristics
\* A variant of GoalRow without the offset of the 1-based tile values.
GoalRow_NoOffset(val, sz) == val \div sz

GoalRow(val, sz) == (val - 1) \div sz
GoalCol(val, sz) == (val - 1) % sz

RECURSIVE CountFrom(_, _, _)
\* number of cells k' >= k of the size x size grid with `state[r][c] and
\* state[r][c] != GOAL_STATE[r][c]`
CountFrom(state, sz, k) ==
    IF k >= sz * sz THEN 0
    ELSE (IF /\ Cell(state, k \div sz, k % sz) # 0
             /\ Cell(state, k \div sz, k % sz) # Cell(GOAL_STATE(sz), k \div sz, k % sz)
          THEN 1 ELSE 0) + CountFrom(state, sz, k + 1)

RECURSIVE CountAllFrom(_, _, _)
\* A variant of h1_misplaced_tiles: the `state[r][c] and` test is missing, so a
\* displaced blank is counted as a misplaced tile.
CountAllFrom(state, sz, k) ==
    IF k >= sz * sz THEN 0
    ELSE (IF Cell(state, k \div sz, k % sz) # Cell(GOAL_STATE(sz), k \div sz, k % sz)
          THEN 1 ELSE 0) + CountAllFrom(state, sz, k + 1)

h1_CountsBlank(state, sz) == CountAllFrom(state, sz, 0)

h1_misplaced_tiles(state, sz) == CountFrom(state, sz, 0)

RECURSIVE DistFrom(_, _, _)
DistFrom(state, sz, k) ==
    IF k >= sz * sz THEN 0
    ELSE LET r == k \div sz
             c == k % sz
             val == Cell(state, r, c)
         IN (IF val # 0
             THEN abs(GoalRow(val, sz) - r) + abs(GoalCol(val, sz) - c)
             ELSE 0) + DistFrom(state, sz, k + 1)

h2_manhattan_distance(state, sz) == DistFrom(state, sz, 0)

pattern_goal_positions ==
    [val \in {1, 2, 3, 4} |->
        CASE val = 1 -> <<0, 0>> [] val = 2 -> <<0, 1>>
          [] val = 3 -> <<0, 2>> [] val = 4 -> <<1, 0>>]

RECURSIVE PatternFrom(_, _)
PatternFrom(state, k) ==
    IF k >= 9 THEN 0
    ELSE LET r == k \div 3
             c == k % 3
             val == Cell(state, r, c)
         IN (IF val \in DOMAIN pattern_goal_positions
             THEN abs(pattern_goal_positions[val][1] - r)
                  + abs(pattern_goal_positions[val][2] - c)
             ELSE 0) + PatternFrom(state, k + 1)

h3_pattern_database(state) == PatternFrom(state, 0)

\* (i, j, k) of the loops `for i ... for j ... for k in range(j + 1, size)`
\* of linear_conflict, where size = 4.
ConflictLoop == {t \in (0..3) \X (0..3) \X (0..3) : t[3] > t[2]}

\* Pairs counted by the row loops and by the column loops of linear_conflict.
RowConflicts(state) ==
    {t \in ConflictLoop :
        LET tile1 == Cell(state, t[1], t[2])
            tile2 == Cell(state, t[1], t[3])
        IN /\ tile1 # 0 /\ GoalRow(tile1, 4) = t[1]
           /\ tile2 # 0 /\ GoalRow(tile2, 4) = t[1]
           /\ GoalCol(tile1, 4) > GoalCol(tile2, 4)}

ColConflicts(state) ==
    {t \in ConflictLoop :
        LET tile1 == Cell(state, t[2], t[1])
            tile2 == Cell(state, t[3], t[1])
        IN /\ tile1 # 0 /\ GoalCol(tile1, 4) = t[1]
           /\ tile2 # 0 /\ GoalCol(tile2, 4) = t[1]
           /\ GoalRow(tile1, 4) > GoalRow(tile2, 4)}

linear_conflict(state) ==
    (Cardinality(RowConflicts(state)) + Cardinality(ColConflicts(state))) * 2

h3_manhattan_linear(state) ==
    h2_manhattan_distance(state, 4) + linear_conflict(state)

\* heuristic(state) for the function passed under the name h.
Heuristics == {"h1", "h2", "h3"}

ApplyHeuristic(h, state, sz) ==
    CASE h = "h1" -> h1_misplaced_tiles(state, sz)
      [] h = "h2" -> h2_manhattan_distance(state, sz)
      [] h = "h3" -> IF sz = 3 THEN h3_pattern_database(state)
                     ELSE h3_manhattan_linear(state)

\* ------------------------------------------------------------- is_solvable
RECURSIVE FlatFrom(_, _)
\* [num for row in state for num in row if num != 0], from cell k on
FlatFrom(state, k) ==
    IF k >= NumCells(state) THEN <<>>
    ELSE LET num == Cell(state, RowOf(state, k), ColOf(state, k))
         IN (IF num # 0 THEN <<num>> ELSE <<>>) \o FlatFrom(state, k + 1)

inversions(flat_list) ==
    Cardinality({p \in (1..Len(flat_list)) \X (1..Len(flat_list)) :
                    p[1] < p[2] /\ flat_list[p[1]] > flat_list[p[2]]})

RECURSIVE FlatAllFrom(_, _)
\* A variant of the flat list that keeps the blank.
FlatAllFrom(state, k) ==
    IF k >= NumCells(state) THEN <<>>
    ELSE <<Cell(state, RowOf(state, k), ColOf(state, k))>>
            \o FlatAllFrom(state, k + 1)

\* A variant of is_solvable that counts the inversions of the blank as well.
is_solvable_WithBlank(state) == inversions(FlatAllFrom(state, 0)) % 2 = 0

is_solvable(state) == inversions(FlatFrom(state, 0)) % 2 = 0

\* ------------------------------------------------------------------- heapq
\* Puzzle.__eq__ and Puzzle.__lt__ of the two files.
Puzzle_eq(self, other) == self.state = other.state

Puzzle_lt(self, other, sz) ==
    IF sz = 3 THEN FALSE
    ELSE (self.cost + h2_manhattan_distance(self.state, 4))
            < (other.cost + h2_manhattan_distance(other.state, 4))

\* (f, puzzle) < (f', puzzle') as Python compares tuples: by the first
\* elements when they differ, else by the Puzzles unless they are equal.
EntryLess(a, b, sz) ==
    IF a[1] # b[1] THEN a[1] < b[1]
    ELSE IF Puzzle_eq(a[2], b[2]) THEN FALSE
    ELSE Puzzle_lt(a[2], b[2], sz)

\* heapq keeps the heap in a list indexed from 0: heap[pos] is At(heap, pos).
At(heap, pos) == heap[pos + 1]

RECURSIVE SiftDownLoop(_, _, _, _, _)
SiftDownLoop(heap, startpos, pos, newitem, sz) ==
    IF pos > startpos /\ EntryLess(newitem, At(heap, (pos - 1) \div 2), sz)
    THEN SiftDownLoop([heap EXCEPT ![pos + 1] = At(heap, (pos - 1) \div 2)],
                      startpos, (pos - 1) \div 2, newitem, sz)
    ELSE [heap EXCEPT ![pos + 1] = newitem]

\* heapq._siftdown(heap, startpos, pos)
siftdown(heap, startpos, pos, sz) ==
    SiftDownLoop(heap, startpos, pos, At(heap, pos), sz)

RECURSIVE SiftUpLoop(_, _, _, _, _)
SiftUpLoop(heap, startpos, pos, newitem, sz) ==
    LET endpos == Len(heap)
        leftpos == 2 * pos + 1
        rightpos == leftpos + 1
        childpos == IF rightpos < endpos
                       /\ ~EntryLess(At(heap, leftpos), At(heap, rightpos), sz)
                    THEN rightpos ELSE leftpos
    IN IF leftpos < endpos
       THEN SiftUpLoop([heap EXCEPT ![pos + 1] = At(heap, childpos)],
                       startpos, childpos, newitem, sz)
       ELSE siftdown([heap EXCEPT ![pos + 1] = newitem], startpos, pos, sz)

\* heapq._siftup(heap, pos)
siftup(heap, pos, sz) == SiftUpLoop(heap, pos, pos, At(heap, pos), sz)

\* A variant of heappush: the item is appended and not sifted.
heappush_NoSift(heap, item, sz) == Append(heap, item)

\* heapq.heappush(heap, item): the heap afterwards.
heappush(heap, item, sz) == siftdown(Append(heap, item), 0, Len(heap), sz)

\* heapq.heappop(heap): the item returned and the heap afterwards.
heappop_item(heap) == heap[1]

heappop_heap(heap, sz) ==
    IF Len(heap) = 1 THEN <<>>
    ELSE siftup([SubSeq(heap, 1, Len(heap) - 1) EXCEPT ![1] = heap[Len(heap)]],
                0, sz)

\* ------------------------------------------------------- input grid states
IsPermutationGrid(state, sz) ==
    /\ Len(state) = sz
    /\ \A a \in 1..sz : Len(state[a]) = sz
    /\ \A v \in 0..(sz * sz - 1) :
          Cardinality({p \in (1..sz) \X (1..sz) : state[p[1]][p[2]] = v}) = 1

\* States of every Puzzle that possible_moves returns for a node of `S`.
SuccessorStates(S, sz) ==
    UNION {{ChildOf(Puzzle(s, None, None, 0), m).state :
               m \in {mv \in MOVES : WithinBounds(Puzzle(s, None, None, 0), mv, sz)}} :
           s \in S}

RECURSIVE WithinMoves(_, _, _)
\* Grid states at most k blank moves away from a state of S.
WithinMoves(S, sz, k) ==
    IF k = 0 THEN S ELSE WithinMoves(S \cup SuccessorStates(S, sz), sz, k - 1)

\* The goal with its last two tiles exchanged: a permutation from which the
\* goal cannot be reached.
SwappedGoal(sz) ==
    IF sz = 3 THEN <<<<1, 2, 3>>, <<4, 5, 6>>, <<8, 7, 0>>>>
    ELSE <<<<1, 2, 3, 4>>, <<5, 6, 7, 8>>, <<9, 10, 11, 12>>, <<13, 15, 14, 0>>>>

\* Grids that are no permutation of 0..size*size-1: without a zero, and with
\* two zeros.
NoBlankGrid(sz) ==
    IF sz = 3 THEN <<<<1, 2, 3>>, <<4, 5, 6>>, <<7, 8, 9>>>>
    ELSE <<<<1, 2, 3, 4>>, <<5, 6, 7, 8>>, <<9, 10, 11, 12>>, <<13, 14, 15, 16>>>>

TwoBlanksGrid(sz) ==
    IF sz = 3 THEN <<<<1, 2, 3>>, <<4, 0, 6>>, <<7, 8, 0>>>>
    ELSE <<<<1, 2, 3, 4>>, <<5, 0, 7, 8>>, <<9, 10, 11, 12>>, <<13, 14, 15, 0>>>>

\* ------------------------------------------- the move generator, standalone
\* Puzzle(state) is constructed on an input grid; possible_moves is called on
\* the node and one of the returned children becomes the next node, as in
\* `neighbors = current.possible_moves(); current = random.choice(neighbors)`.
MoveInputs(sz) ==
    {GOAL_STATE(sz), SwappedGoal(sz), NoBlankGrid(sz), TwoBlanksGrid(sz)}

IdleSearch ==
    /\ heuristic = "" /\ open_set = <<>> /\ visited = {} /\ steps = 0
    /\ nodes_expanded = 0 /\ pops = 0 /\ created = 0
    /\ pushed = <<>> /\ popped = <<>>

IdleSampler == n = 0 /\ moves = 0 /\ states = {} /\ grid = None /\ i = 0

InitMoves ==
    /\ size \in Sizes
    /\ order \in MoveOrders
    /\ start_state \in {Puzzle(s, None, None, 0) : s \in MoveInputs(size)}
    /\ current = start_state
    /\ children = <<>>
    /\ result = None
    /\ pc = "ready"
    /\ IdleSearch /\ IdleSampler

\* current.possible_moves() returns its list.
CallPossibleMoves ==
    /\ pc = "ready"
    /\ current.cost < MaxWalk
    /\ current.blank_pos # None
    /\ children' = possible_moves(current, order, size)
    /\ current' = SelfAfterMoves(current, order, size)
    /\ pc' = "called"
    /\ UNCHANGED <<size, order, start_state, result>>
    /\ UNCHANGED <<heuristic, open_set, visited, steps, nodes_expanded, pops, created,
                   pushed, popped>>
    /\ UNCHANGED samplerVars

\* `r, c = self.blank_pos` with blank_pos None raises TypeError.
CallPossibleMovesRaises ==
    /\ pc = "ready"
    /\ current.blank_pos = None
    /\ result' = <<"TypeError">>
    /\ pc' = "raised"
    /\ UNCHANGED <<size, order, start_state, current, children>>
    /\ UNCHANGED <<heuristic, open_set, visited, steps, nodes_expanded, pops, created,
                   pushed, popped>>
    /\ UNCHANGED samplerVars

ChooseChild ==
    /\ pc = "called"
    /\ \E k \in 1..Len(children) : current' = children[k]
    /\ pc' = "ready"
    /\ UNCHANGED <<size, order, start_state, children, result>>
    /\ UNCHANGED <<heuristic, open_set, visited, steps, nodes_expanded, pops, created,
                   pushed, popped>>
    /\ UNCHANGED samplerVars

NextMoves == CallPossibleMoves \/ CallPossibleMovesRaises \/ ChooseChild

SpecMoves == InitMoves /\ [][NextMoves]_vars

\* ------------------------------------------------- claims: move generator
BlankPositions(state) ==
    {p \in (0..Len(state) - 1) \X (0..Len(state[1]) - 1) :
        Cell(state, p[1], p[2]) = 0}

NodeWellFormed(node, sz) ==
    /\ IsPermutationGrid(node.state, sz)
    /\ BlankPositions(node.state) = {node.blank_pos}

\* C7: starting from a state that holds each value 0..size*size-1 exactly
\* once, every node produced by any sequence of possible_moves calls holds
\* each value exactly once, and its blank_pos is the position of its zero.
C7_GridInvariant ==
    IsPermutationGrid(start_state.state, size) =>
        /\ NodeWellFormed(current, size)
        /\ \A k \in 1..Len(children) : NodeWellFormed(children[k], size)

C7_Witness ==
    /\ IsPermutationGrid(start_state.state, size)
    /\ pc = "called" /\ current.cost >= 2 /\ Len(children) = 4

\* Number of in-bounds cardinal moves of a blank at pos: 2 in a corner, 3 on
\* a non-corner edge cell, 4 in the interior.
ExpectedSuccessors(pos, sz) ==
    4 - (IF pos[1] \in {0, sz - 1} THEN 1 ELSE 0)
      - (IF pos[2] \in {0, sz - 1} THEN 1 ELSE 0)

\* child.state is self.state with the blank and the cell at blank + child.move
\* exchanged, every other cell the same.
IsBlankSlide(self, child, sz) ==
    LET r == self.blank_pos[1]
        c == self.blank_pos[2]
        nr == r + child.move[1]
        nc == c + child.move[2]
    IN /\ child.move \in MOVES
       /\ nr \in 0..sz - 1 /\ nc \in 0..sz - 1
       /\ Cell(child.state, nr, nc) = 0
       /\ Cell(child.state, r, c) = Cell(self.state, nr, nc)
       /\ \A p \in (0..sz - 1) \X (0..sz - 1) :
             (p # <<r, c>> /\ p # <<nr, nc>>) =>
                 Cell(child.state, p[1], p[2]) = Cell(self.state, p[1], p[2])

\* C8: on a valid state possible_moves returns one successor per in-bounds
\* cardinal blank move and no others (2 in a corner, 3 on an edge, 4 in the
\* interior), each the parent with the blank slid by its move, and the
\* successors are pairwise distinct states.
C8_Successors ==
    (IsPermutationGrid(start_state.state, size) /\ pc = "called") =>
        /\ Len(children) = ExpectedSuccessors(current.blank_pos, size)
        /\ \A k \in 1..Len(children) : IsBlankSlide(current, children[k], size)
        /\ \A k, l \in 1..Len(children) :
              k # l => /\ children[k].state # children[l].state
                       /\ children[k].move # children[l].move

C8_Witness ==
    /\ IsPermutationGrid(start_state.state, size)
    /\ pc = "called" /\ current.cost = 2 /\ Len(children) = 4

\* C14: possible_moves does not mutate the node it is called on: after the
\* call its state, cost, blank_pos, parent and move are what they were; each
\* child is a new node whose parent is the expanded node, whose move is the
\* delta by which its blank was slid, and whose cost is the parent's cost + 1.
C14_ParentUntouched ==
    [][(pc = "ready" /\ pc' = "called") =>
          /\ current'.state = current.state
          /\ current'.cost = current.cost
          /\ current'.blank_pos = current.blank_pos
          /\ current'.parent = current.parent
          /\ current'.move = current.move
          /\ \A k \in 1..Len(children') :
                /\ children'[k] # current
                /\ children'[k].parent = current.state
                /\ children'[k].move \in MOVES
                /\ Cell(children'[k].state,
                        current.blank_pos[1] + children'[k].move[1],
                        current.blank_pos[2] + children'[k].move[2]) = 0
                /\ children'[k].cost = current.cost + 1]_vars

C14_Witness ==
    /\ pc = "called" /\ current.cost = 1 /\ Len(children) = 3
    /\ current.parent = start_state.state
    /\ children[1].parent = current.state

HeuristicValues(state, sz) ==
    IF sz = 3
    THEN [h1 |-> h1_misplaced_tiles(state, 3),
          h2 |-> h2_manhattan_distance(state, 3),
          h3 |-> h3_pattern_database(state)]
    ELSE [h1 |-> h1_misplaced_tiles(state, 4),
          h2 |-> h2_manhattan_distance(state, 4),
          h3 |-> h3_manhattan_linear(state)]

InitHeuristics ==
    /\ size \in Sizes
    /\ order \in {CHOOSE o \in MoveOrders : TRUE}
    /\ start_state = Puzzle(GOAL_STATE(size), None, None, 0)
    /\ current = start_state
    /\ children = <<>>
    /\ result = HeuristicValues(current.state, size)
    /\ pc = "walk"
    /\ IdleSearch
    /\ n = 1 /\ moves = MaxDeepWalk /\ states = {} /\ grid = None /\ i = 0

WalkStep ==
    /\ pc = "walk"
    /\ i < moves
    /\ \E m \in MOVES :
          /\ WithinBounds(current, m, size)
          /\ current' = ChildOf(current, m)
    /\ i' = i + 1
    /\ result' = HeuristicValues(current'.state, size)
    /\ UNCHANGED <<size, order, start_state, children, pc, n, moves, states, grid>>
    /\ UNCHANGED <<heuristic, open_set, visited, steps, nodes_expanded, pops, created,
                   pushed, popped>>

NextHeuristics == WalkStep

SpecHeuristics == InitHeuristics /\ [][NextHeuristics]_vars

\* C4: every heuristic is admissible.  The walk starts at the goal and every
\* move can be undone, so current.cost is the length of a sequence of legal
\* moves from current.state to the goal, and the walks reach every state
\* first by a shortest one.
C4_Admissible ==
    /\ result.h1 <= current.cost
    /\ result.h2 <= current.cost
    /\ result.h3 <= current.cost

\* C9: misplaced_tiles(s) <= manhattan(s) <= manhattan(s) + linear_conflict(s)
\* (the 4x4 h3, which is that sum) and, on the 3x3 grid,
\* h3_pattern_database(s) <= manhattan(s).
C9_Ordered ==
    /\ result.h1 <= result.h2
    /\ size = 4 => result.h2 <= result.h3
    /\ size = 3 => result.h3 <= result.h2

C9_Witness ==
    \/ size = 4 /\ result.h1 < result.h2 /\ result.h2 < result.h3 /\ current.cost >= 5
    \/ size = 3 /\ 0 < result.h3 /\ result.h3 < result.h2 /\ result.h1 < result.h2

\* C11: every heuristic is 0 on the goal of its grid (h1, h2, h3 of either
\* file and linear_conflict, which is h3 - h2 on the 4x4 grid), and every
\* heuristic returns a non-negative integer on every state.
C11_ZeroAtGoal ==
    /\ current.state = GOAL_STATE(size) =>
          /\ result.h1 = 0 /\ result.h2 = 0 /\ result.h3 = 0
          /\ size = 4 => linear_conflict(current.state) = 0
    /\ result.h1 \in Nat /\ result.h2 \in Nat /\ result.h3 \in Nat
    /\ size = 4 => (result.h3 - result.h2) \in Nat

C11_Witness ==
    /\ current.state = GOAL_STATE(size)
    /\ current.cost = 2
    /\ result.h3 = 0


\* ------------------------------------------------------------ a_star_search
\* A grid with one blank whose tiles all carry the value 1: the goal cannot
\* be reached from it and its move graph has size*size states, so a search
\* from it runs until the open set is empty.
UniformGrid(sz) ==
    [a \in 1..sz |-> [b \in 1..sz |-> IF a = sz /\ b = sz THEN 0 ELSE 1]]

SearchInputs(sz) ==
    WithinMoves({GOAL_STATE(sz)}, sz, MaxScramble) \cup {UniformGrid(sz)}

\* What the history keeps of heappush(open_set, (key, node)).
PushRecord(node, key) == [state |-> node.state, g |-> node.cost, key |-> key]

\* The locals of a running search: o = open_set, v = visited,
\* ne = nodes_expanded, and the history p = pushed.
RECURSIVE ForChildren_8(_, _, _, _)
\* 8puzzle.py, the `for child in current.possible_moves()` loop from child k
ForChildren_8(loc, kids, h, k) ==
    IF k > Len(kids) THEN loc
    ELSE IF kids[k].state \notin loc.v
         THEN ForChildren_8(
                [o |-> heappush(loc.o,
                                <<kids[k].cost + ApplyHeuristic(h, kids[k].state, 3),
                                  kids[k]>>, 3),
                 v |-> loc.v,
                 ne |-> loc.ne + 1,
                 p |-> Append(loc.p,
                              PushRecord(kids[k],
                                         kids[k].cost
                                           + ApplyHeuristic(h, kids[k].state, 3)))],
                kids, h, k + 1)
         ELSE ForChildren_8(loc, kids, h, k + 1)

RECURSIVE ForChildren_15_NoRecord(_, _, _, _)
\* A variant of ForChildren_15 without `visited[child.state] = g`.
ForChildren_15_NoRecord(loc, kids, h, k) ==
    IF k > Len(kids) THEN loc
    ELSE LET g == kids[k].cost
         IN IF kids[k].state \notin DOMAIN loc.v \/ g < loc.v[kids[k].state]
            THEN ForChildren_15_NoRecord(
                   [o |-> heappush(loc.o,
                                   <<g + ApplyHeuristic(h, kids[k].state, 4),
                                     kids[k]>>, 4),
                    v |-> loc.v,
                    ne |-> loc.ne + 1,
                    p |-> Append(loc.p,
                                 PushRecord(kids[k],
                                            g + ApplyHeuristic(h, kids[k].state, 4)))],
                   kids, h, k + 1)
            ELSE ForChildren_15_NoRecord([loc EXCEPT !.ne = loc.ne + 1],
                                         kids, h, k + 1)

RECURSIVE ForChildren_15(_, _, _, _)
\* 15puzzle.py, the `for child in current.possible_moves()` loop from child k
ForChildren_15(loc, kids, h, k) ==
    IF k > Len(kids) THEN loc
    ELSE LET g == kids[k].cost
         IN IF kids[k].state \notin DOMAIN loc.v \/ g < loc.v[kids[k].state]
            THEN ForChildren_15(
                   [o |-> heappush(loc.o,
                                   <<g + ApplyHeuristic(h, kids[k].state, 4),
                                     kids[k]>>, 4),
                    v |-> (kids[k].state :> g) @@ loc.v,
                    ne |-> loc.ne + 1,
                    p |-> Append(loc.p,
                                 PushRecord(kids[k],
                                            g + ApplyHeuristic(h, kids[k].state, 4)))],
                   kids, h, k + 1)
            ELSE ForChildren_15([loc EXCEPT !.ne = loc.ne + 1], kids, h, k + 1)

\* The state at the first test of `while open_set`, for a start state of
\* `starts` and an iteration order of `orders`.
SearchEntry(starts, orders) ==
    /\ size \in Sizes
    /\ order \in orders
    /\ heuristic \in Heuristics
    /\ start_state \in {Puzzle(s, None, None, 0) : s \in starts}
    /\ open_set =
          IF size = 3 THEN heappush(<<>>, <<0, start_state>>, 3)
          ELSE heappush(<<>>,
                        <<start_state.cost
                            + ApplyHeuristic(heuristic, start_state.state, 4),
                          start_state>>, 4)
    /\ visited = IF size = 3 THEN {}
                 ELSE (start_state.state :> start_state.cost)
    /\ steps = 0
    /\ nodes_expanded = 0
    /\ current = start_state
    /\ children = <<>>
    /\ result = Pending
    /\ pops = 0
    /\ created = 0
    /\ pushed = <<PushRecord(start_state, open_set[1][1])>>
    /\ popped = <<>>
    /\ pc = "while"
    /\ IdleSampler

InitSearch == SearchEntry(SearchInputs(size), MoveOrders)

\* One round of the while loop that pops the goal: `return steps, nodes_expanded`.
PopGoal ==
    /\ pc = "while"
    /\ open_set # <<>>
    /\ heappop_item(open_set)[2].state = GOAL_STATE(size)
    /\ current' = heappop_item(open_set)[2]
    /\ open_set' = heappop_heap(open_set, size)
    /\ steps' = steps + 1
    /\ pops' = pops + 1
    /\ result' = <<steps + 1, nodes_expanded>>
    /\ popped' = Append(popped, heappop_item(open_set)[1])
    /\ pc' = "done"
    /\ UNCHANGED <<size, order, heuristic, start_state, visited, nodes_expanded,
                   children, created, pushed>>
    /\ UNCHANGED samplerVars

\* One round of the while loop of 8puzzle.py that pops another node.
Expand_8 ==
    /\ pc = "while"
    /\ size = 3
    /\ open_set # <<>>
    /\ heappop_item(open_set)[2].state # GOAL_STATE_8
    /\ LET node == heappop_item(open_set)[2]
           kids == possible_moves(node, order, 3)
           loc == ForChildren_8([o |-> heappop_heap(open_set, 3),
                                 v |-> visited \cup {node.state},
                                 ne |-> nodes_expanded,
                                 p |-> pushed],
                                kids, heuristic, 1)
       IN /\ current' = node
          /\ children' = kids
          /\ created' = created + Len(kids)
          /\ open_set' = loc.o
          /\ visited' = loc.v
          /\ nodes_expanded' = loc.ne
          /\ pushed' = loc.p
    /\ steps' = steps + 1
    /\ pops' = pops + 1
    /\ popped' = Append(popped, heappop_item(open_set)[1])
    /\ UNCHANGED <<size, order, heuristic, start_state, result, pc>>
    /\ UNCHANGED samplerVars

\* One round of the while loop of 15puzzle.py that pops another node.
Expand_15 ==
    /\ pc = "while"
    /\ size = 4
    /\ open_set # <<>>
    /\ heappop_item(open_set)[2].state # GOAL_STATE_15
    /\ LET node == heappop_item(open_set)[2]
           kids == possible_moves(node, order, 4)
           loc == ForChildren_15([o |-> heappop_heap(open_set, 4),
                                  v |-> visited,
                                  ne |-> nodes_expanded,
                                  p |-> pushed],
                                 kids, heuristic, 1)
       IN /\ current' = node
          /\ children' = kids
          /\ created' = created + Len(kids)
          /\ open_set' = loc.o
          /\ visited' = loc.v
          /\ nodes_expanded' = loc.ne
          /\ pushed' = loc.p
    /\ steps' = steps + 1
    /\ pops' = pops + 1
    /\ popped' = Append(popped, heappop_item(open_set)[1])
    /\ UNCHANGED <<size, order, heuristic, start_state, result, pc>>
    /\ UNCHANGED samplerVars

\* `while open_set` fails: `return None`.
ReturnNone ==
    /\ pc = "while"
    /\ open_set = <<>>
    /\ result' = None
    /\ pc' = "done"
    /\ UNCHANGED <<size, order, heuristic, start_state, open_set, visited, steps,
                   nodes_expanded, current, children, pops, created,
                   pushed, popped>>
    /\ UNCHANGED samplerVars

NextSearch == PopGoal \/ Expand_8 \/ Expand_15 \/ ReturnNone

SpecSearch == InitSearch /\ [][NextSearch]_vars

\* Searches from start states further from the goal (a 3x3 state 6 moves
\* away, a 4x4 state 8 moves away) and from the exhaustible start, under the
\* order in which the source lists MOVES and under its reverse.
DeepStart(sz) ==
    IF sz = 3 THEN <<<<1, 2, 3>>, <<5, 7, 6>>, <<0, 4, 8>>>>
    ELSE <<<<1, 2, 3, 4>>, <<5, 0, 7, 8>>, <<9, 6, 14, 12>>, <<13, 11, 10, 15>>>>

DeepOrders ==
    {<<<<0, -1>>, <<0, 1>>, <<-1, 0>>, <<1, 0>>>>,
     <<<<1, 0>>, <<-1, 0>>, <<0, 1>>, <<0, -1>>>>}

DeepInputs(sz) == {DeepStart(sz), UniformGrid(sz)}

InitSearchDeep == SearchEntry(DeepInputs(size), DeepOrders)

SpecSearchDeep == InitSearchDeep /\ [][NextSearch]_vars

\* The search is a synchronous loop: a round that can run does run.  This is
\* WF_vars(NextSearch) with ENABLED <<NextSearch>>_vars written out: a round
\* can run exactly when pc = "while", and every round changes steps or pc.
SpecSearchFair ==
    SpecSearch /\ ([]<>(pc # "while") \/ []<><<NextSearch>>_vars)

\* --------------------------------------------------- claims: a_star_search
RECURSIVE ReachesGoal(_, _)
\* Whether the goal is among the states reachable by legal moves from S.
ReachesGoal(S, sz) ==
    IF GOAL_STATE(sz) \in S THEN TRUE
    ELSE IF SuccessorStates(S, sz) \subseteq S THEN FALSE
    ELSE ReachesGoal(S \cup SuccessorStates(S, sz), sz)

RECURSIVE BfsDepth(_, _, _)
\* Breadth-first search from S, reached after d moves: the number of moves of
\* a shortest path to the goal (for a state from which the goal is reachable).
BfsDepth(S, sz, d) ==
    IF GOAL_STATE(sz) \in S THEN d
    ELSE BfsDepth(S \cup SuccessorStates(S, sz), sz, d + 1)

ShortestPath(state, sz) == BfsDepth({state}, sz, 0)

Returned == pc = "done" /\ result # None

\* C1: for a start state from which the goal is reachable, the returned
\* `steps` is the number of moves of a shortest path from the start to the
\* goal, as breadth-first search finds it.
C1_StepsIsShortestPath ==
    Returned => result[1] = ShortestPath(start_state.state, size)

\* C2: every search terminates; it returns a (steps, nodes_expanded) pair if
\* the goal is reachable from the start, and None exactly when the open set
\* has become empty without the goal having been popped.
C2_Terminates ==
    /\ <>(pc = "done")
    /\ [](pc = "done" =>
            /\ ReachesGoal({start_state.state}, size) =>
                  /\ result # None
                  /\ Len(result) = 2
                  /\ result[1] \in Nat /\ result[2] \in Nat
            /\ result = None <=>
                  (open_set = <<>> /\ current.state # GOAL_STATE(size)))

C2_Witness == pc = "done" /\ result = None /\ steps > 2

\* C3: on success `steps` is the number of pops made on the open set and
\* `nodes_expanded` is the number of successor nodes that possible_moves
\* created over all expansions, pushed or not.
C3_Counters ==
    Returned => result[1] = pops /\ result[2] = created

\* ------------------------------------------ is_solvable, on the 3x3 grid
\* is_solvable is evaluated on every grid that legal blank moves reach
\* from the goal and from the goal with tiles 7 and 8 exchanged.  A move is
\* undone by the opposite move, so the grids reached from the goal are the
\* grids from which the goal is reachable.  The two families have 181440
\* grids each: together they are the 9! permutations of 0..8.
InitSolvable ==
    /\ size = 3
    /\ order \in {CHOOSE o \in MoveOrders : TRUE}
    /\ start_state \in {Puzzle(s, None, None, 0) :
                           s \in {GOAL_STATE_8, SwappedGoal(3)}}
    /\ current = start_state
    /\ children = <<>>
    /\ grid = start_state.state
    /\ result = is_solvable(grid)
    /\ pc = "slide"
    /\ IdleSearch
    /\ n = 0 /\ moves = 0 /\ states = {} /\ i = 0

SlideAndTest ==
    /\ pc = "slide"
    /\ \E child \in Range(possible_moves(Puzzle(grid, None, None, 0), order, 3)) :
          grid' = child.state
    /\ result' = is_solvable(grid')
    /\ UNCHANGED <<size, order, start_state, current, children, pc,
                   n, moves, states, i>>
    /\ UNCHANGED searchVars

NextSolvable == SlideAndTest

SpecSolvable == InitSolvable /\ [][NextSolvable]_vars

\* C5: on the 3x3 grid is_solvable(s) is true exactly for the permutations s
\* from which the goal is reachable by legal blank moves: true on every grid
\* connected to the goal, the goal included, and false on every grid
\* connected to the goal with two adjacent tiles exchanged, none of which is
\* the goal.
C5_SolvableIffReachable ==
    /\ result <=> (start_state.state = GOAL_STATE_8)
    /\ grid = GOAL_STATE_8 => start_state.state = GOAL_STATE_8
    /\ grid = SwappedGoal(3) => ~result

C5_Witness ==
    /\ start_state.state = SwappedGoal(3)
    /\ Cell(grid, 0, 0) = 0
    /\ Cell(grid, 2, 2) = 1
    /\ ~result

\* C13: is_solvable is invariant under legal moves on the 3x3 grid: the
\* verdict on a successor that possible_moves produces is the verdict on the
\* state it was produced from, so it never changes along a sequence of moves.
C13_VerdictUnchanged == [][result' = result]_vars

C13_Witness ==
    /\ start_state.state = GOAL_STATE_8
    /\ Cell(grid, 0, 0) = 0
    /\ Cell(grid, 2, 2) = 8
    /\ result

\* ------------------------------------------------ create_reachable_states
\* Outcomes of random.shuffle(list(range(9))): the flattened grids at most
\* MaxShuffle blank moves away from the goal (even inversion count) or from
\* the goal with two tiles exchanged (odd inversion count).
ShuffleOutcomes ==
    {s[1] \o s[2] \o s[3] :
        s \in WithinMoves({GOAL_STATE_8, SwappedGoal(3)}, 3, MaxShuffle)}

\* A variant of RowsOf whose slices overlap.
RowsOf_Overlap(shuffled) ==
    <<SubSeq(shuffled, 1, 3), SubSeq(shuffled, 3, 5), SubSeq(shuffled, 7, 9)>>

\* tuple(tuple(shuffled[i:i + 3]) for i in range(0, 9, 3))
RowsOf(shuffled) ==
    <<SubSeq(shuffled, 1, 3), SubSeq(shuffled, 4, 6), SubSeq(shuffled, 7, 9)>>

\* list(states): the elements of the set in an order the interpreter chooses.
ListsOf(S) ==
    {l \in [1..Cardinality(S) -> S] : \A e \in S : \E k \in DOMAIN l : l[k] = e}

InitSampler ==
    /\ size \in Sizes
    /\ order \in {CHOOSE o \in MoveOrders : TRUE}
    /\ n \in 0..MaxN
    /\ moves \in (IF size = 3 THEN {0} ELSE 0..MaxMoves)
    /\ states = {}
    /\ grid = None
    /\ i = 0
    /\ start_state = Puzzle(GOAL_STATE(size), None, None, 0)
    /\ current = start_state
    /\ children = <<>>
    /\ result = Pending
    /\ pc = "while"
    /\ IdleSearch

\* 3x3: one round of the while loop: shuffle, slice into rows, filter, add.
ShuffleAndFilter ==
    /\ pc = "while"
    /\ size = 3
    /\ Cardinality(states) < n
    /\ \E shuffled \in ShuffleOutcomes : grid' = RowsOf(shuffled)
    /\ states' = IF is_solvable(grid') THEN states \cup {grid'} ELSE states
    /\ UNCHANGED <<size, order, start_state, current, children, result, pc,
                   n, moves, i>>
    /\ UNCHANGED searchVars

\* 4x4: a round of the while loop begins: `current = Puzzle(GOAL_STATE)`.
StartWalk ==
    /\ pc = "while"
    /\ size = 4
    /\ Cardinality(states) < n
    /\ current' = Puzzle(GOAL_STATE_15, None, None, 0)
    /\ i' = 0
    /\ pc' = "for"
    /\ UNCHANGED <<size, order, start_state, children, result, n, moves,
                   states, grid>>
    /\ UNCHANGED searchVars

\* 4x4: one round of the for loop: possible_moves, then random.choice.
WalkMove ==
    /\ pc = "for"
    /\ i < moves
    /\ children' = possible_moves(current, order, 4)
    /\ current' \in Range(children')
    /\ i' = i + 1
    /\ UNCHANGED <<size, order, start_state, result, pc, n, moves, states, grid>>
    /\ UNCHANGED searchVars

\* 4x4: the for loop is over: `states.add(current.state)`.
AddWalked ==
    /\ pc = "for"
    /\ i = moves
    /\ states' = states \cup {current.state}
    /\ pc' = "while"
    /\ UNCHANGED <<size, order, start_state, current, children, result,
                   n, moves, grid, i>>
    /\ UNCHANGED searchVars

\* `return list(states)` once len(states) < n is false.
ReturnList ==
    /\ pc = "while"
    /\ ~(Cardinality(states) < n)
    /\ result' \in ListsOf(states)
    /\ pc' = "done"
    /\ UNCHANGED <<size, order, start_state, current, children,
                   n, moves, states, grid, i>>
    /\ UNCHANGED searchVars

NextSampler ==
    ShuffleAndFilter \/ StartWalk \/ WalkMove \/ AddWalked \/ ReturnList

SpecSampler == InitSampler /\ [][NextSampler]_vars

\* The sampler is a synchronous loop: a round that can run does run.  Every
\* round that changes a variable changes pc, i, states or grid.
SpecSamplerFair == SpecSampler /\ WF_<<pc, i, states, grid>>(NextSampler)

RECURSIVE WalkEnds(_)
\* The states at which a walk of exactly k legal moves from the 4x4 goal ends.
WalkEnds(k) ==
    IF k = 0 THEN {GOAL_STATE_15} ELSE SuccessorStates(WalkEnds(k - 1), 4)

\* C6: whenever create_reachable_states returns, the returned list holds
\* exactly n pairwise distinct grids, each a permutation of 0..size*size-1
\* from which the goal is reachable: on the 3x3 grid each passes is_solvable,
\* on the 4x4 grid each is at most `moves` legal moves away from the goal.
C6_SamplerReturns ==
    pc = "done" =>
        /\ Len(result) = n
        /\ \A a, b \in 1..Len(result) : a # b => result[a] # result[b]
        /\ \A a \in 1..Len(result) :
              /\ IsPermutationGrid(result[a], size)
              /\ size = 3 => is_solvable(result[a])
              /\ size = 3 => ReachesGoal({result[a]}, 3)
              /\ size = 4 => result[a] \in WithinMoves({GOAL_STATE_15}, 4, moves)

C6_Witness ==
    /\ pc = "done"
    /\ n = MaxN
    /\ Len(result) = MaxN
    /\ result[1] # GOAL_STATE(size)

\* C12: a successor is pushed only if its state has no recorded g or its g is
\* strictly smaller than the one recorded: of two pushes of the same state
\* the later one has the strictly smaller g, so the open set never receives
\* a second entry for a state with a worse or equal g.  Stated for searches
\* that start from a permutation of 0..size*size-1.
C12_NoWorseRepush ==
    IsPermutationGrid(start_state.state, size) =>
        \A a, b \in 1..Len(pushed) :
            (a < b /\ pushed[a].state = pushed[b].state) =>
                pushed[b].g < pushed[a].g

\* C15: the sampler guards against stalls: create_reachable_states(n, moves)
\* of the 4x4 grid eventually returns even when n exceeds the number of
\* distinct states at which walks of exactly `moves` moves from the goal end.
C15_ReturnsDespiteStall ==
    (size = 4 /\ Cardinality(WalkEnds(moves)) < n) => <>(pc = "done")

RECURSIVE BfsLayers(_, _, _, _, _)
\* Breadth-first search by layers: `frontier` holds the states first reached
\* after d moves, `seen` those reached after at most d moves.  The number of
\* moves of a shortest path to `target`, or -1 if there is none.
BfsLayers(frontier, seen, target, sz, d) ==
    IF target \in frontier THEN d
    ELSE IF frontier = {} THEN -1
    ELSE LET next == SuccessorStates(frontier, sz) \ seen
         IN BfsLayers(next, seen \cup next, target, sz, d + 1)

Distance(from, to, sz) == BfsLayers({from}, {from}, to, sz, 0)

PushedCosts(s) == {pushed[k].g : k \in {j \in 1..Len(pushed) : pushed[j].state = s}}

RECURSIVE NoKeyBelowDistance(_, _, _, _)
\* Breadth-first search by layers from the start: every key of `visited`
\* first reached in layer d has a recorded g of at least d, and every key is
\* reached.  `keys` are the keys not reached before layer d.
NoKeyBelowDistance(frontier, seen, keys, d) ==
    IF keys = {} THEN TRUE
    ELSE IF frontier = {} THEN FALSE
    ELSE /\ \A s \in keys \cap frontier : visited[s] >= d
         /\ LET next == SuccessorStates(frontier, 4) \ seen
            IN NoKeyBelowDistance(next, seen \cup next, keys \ frontier, d + 1)

VisitedMapInv ==
    size = 4 =>
        /\ start_state.state \in DOMAIN visited
        /\ visited[start_state.state] = start_state.cost
        /\ start_state.cost = 0
        /\ \A s \in DOMAIN visited :
              /\ visited[s] \in PushedCosts(s)
              /\ \A g \in PushedCosts(s) : visited[s] <= g
        /\ NoKeyBelowDistance({start_state.state}, {start_state.state},
                              DOMAIN visited, 0)
        /\ \A k \in 1..Len(open_set) :
              /\ open_set[k][2].state \in DOMAIN visited
              /\ open_set[k][2].cost >= visited[open_set[k][2].state]

\* C17: in the 4x4 search, at every point, visited[start] is the start cost
\* 0; visited[s] is the least g of the nodes with state s pushed so far, is
\* never increased by a later step, and is at least the shortest distance
\* from the start to s; and every node of the open set has a state that is a
\* key of visited, with a cost of at least visited[state].
C17_VisitedMap ==
    /\ []VisitedMapInv
    /\ [][size = 4 =>
            \A s \in DOMAIN visited :
                s \in DOMAIN visited' /\ visited'[s] <= visited[s]]_vars

C17_Witness ==
    /\ size = 4
    /\ start_state.state = DeepStart(4)
    /\ \E a, b \in 1..Len(pushed) :
          /\ a < b
          /\ pushed[a].state = pushed[b].state
          /\ pushed[b].g < pushed[a].g
          /\ visited[pushed[b].state] = pushed[b].g
    /\ nodes_expanded > Len(pushed)

PoppedKeysInv ==
    size = 3 =>
        /\ \A k \in 2..Len(pushed) :
              pushed[k].key
                 = pushed[k].g + ApplyHeuristic(heuristic, pushed[k].state, 3)
        /\ \A a, b \in 1..Len(popped) : a < b => popped[a] <= popped[b]

\* C18: in the 3x3 search with h1, h2 or h3, every pop returns an entry whose
\* key is minimal among the open set, every pushed successor's key is
\* child.cost + heuristic(child.state), and the keys of the successively
\* popped nodes are non-decreasing over the whole search.
C18_PopsInKeyOrder ==
    /\ []PoppedKeysInv
    /\ [][(size = 3 /\ pops' = pops + 1) =>
            /\ Len(popped') = Len(popped) + 1
            /\ \A k \in 1..Len(open_set) :
                  popped'[Len(popped')] <= open_set[k][1]]_vars

C18_Witness ==
    /\ size = 3
    /\ start_state.state = DeepStart(3)
    /\ Len(popped) >= 10
    /\ popped[Len(popped)] > popped[2]
    /\ Len(open_set) >= 5

\* C19: every state the 4x4 create_reachable_states(n, moves) returns has a
\* shortest solution of at most `moves` moves, of the parity of `moves`: it
\* is the end of a walk of exactly `moves` legal moves from the goal.
C19_WalkParity ==
    (pc = "done" /\ size = 4) =>
        \A a \in 1..Len(result) :
            LET d == Distance(result[a], GOAL_STATE_15, 4)
            IN /\ result[a] \in WalkEnds(moves)
               /\ 0 <= d /\ d <= moves
               /\ (moves - d) % 2 = 0

C19_Witness ==
    /\ pc = "done" /\ size = 4 /\ moves = MaxMoves /\ Len(result) = 2
    /\ Distance(result[1], GOAL_STATE_15, 4) = moves
    /\ Distance(result[2], GOAL_STATE_15, 4) = moves - 2

====
